---- MODULE Spec2Model ----
(***************************************************************************)
(* Model of graph::Graph<key_type, value_type, weight_type> (src/Graph.h). *)
(* A Graph owns an unordered_map from key to Node; a Node owns a value and *)
(* an unordered_map from target key to weight.  Maps are modelled as       *)
(* functions whose DOMAIN is the set of keys present.                      *)
(***************************************************************************)
EXTENDS Integers, FiniteSets, TLC

\* ---------------------------------------------------------------- bounds
NumKeys == 2        \* key_type values are 1..NumKeys
MaxCells == 4       \* map entries (nodes plus edges) alive over all graphs

Keys == 1..NumKeys
\* The payloads are only stored and compared, never computed with: two
\* values and two weights tell "kept" from "overwritten".
Values == {0, 1}
Weights == {1, 2}
\* Two Graph objects, so that copy, move and swap have a peer.
GraphIds == {1, 2}
\* Keys used when both Graph objects are operated on.
PairKeys == {1, 2}

\* value_type{} : what Node() holds once unordered_map::operator[] has
\* value-initialised it
DefaultValue == 0
\* "no key": the position of an end() iterator, or an unused argument slot
NoKey == 0

VARIABLES m_umap, last

vars == <<m_umap, last>>

\* ------------------------------------------------- std::unordered_map
EmptyMap == <<>>

MapFind(m, k) == k \in DOMAIN m

MapPut(m, k, x) == [y \in (DOMAIN m) \cup {k} |-> IF y = k THEN x ELSE m[y]]

\* unordered_map::insert : keeps the old entry when the key is present
MapInsert(m, k, x) == IF MapFind(m, k) THEN m ELSE MapPut(m, k, x)

\* unordered_map::insert_or_assign : overwrites the mapped value
MapInsertOrAssign(m, k, x) == MapPut(m, k, x)

MapSize(m) == Cardinality(DOMAIN m)

\* ---------------------------------------------------------------- Node
\* explicit Node(value_type value) : m_value(value), m_edge empty
Node(v) == [m_value |-> v, m_edge |-> EmptyMap]

\* Node() = default
NodeDefault == [m_value |-> DefaultValue, m_edge |-> EmptyMap]

getedges(n) == n.m_edge

Node_insert_edge_overwrites(n, key, weight) ==
    [n EXCEPT !.m_edge = MapInsertOrAssign(n.m_edge, key, weight)]

Node_insert_edge(n, key, weight) ==
    [n EXCEPT !.m_edge = MapInsert(n.m_edge, key, weight)]

Node_insert_or_assign_edge(n, key, weight) ==
    [n EXCEPT !.m_edge = MapInsertOrAssign(n.m_edge, key, weight)]

\* --------------------------------------------------------------- queries
size(g) == MapSize(g)

empty(g) == DOMAIN g = {}

\* the loop of degree_in: counter++ for every element whose edges find key
RECURSIVE DegreeInLoop(_, _, _, _)
DegreeInLoop(g, S, key, counter) ==
    IF S = {} THEN counter
    ELSE LET elem == CHOOSE x \in S : TRUE
             edges == getedges(g[elem])
         IN DegreeInLoop(g, S \ {elem}, key,
                         IF MapFind(edges, key) THEN counter + 1 ELSE counter)

DegreeInCount_others_only(g, key) == DegreeInLoop(g, DOMAIN g \ {key}, key, 0)

DegreeInCount(g, key) == DegreeInLoop(g, DOMAIN g, key, 0)

DegreeOutCount(g, key) == MapSize(getedges(g[key]))

LoopTest(g, key) ==
    LET node_map == getedges(g[key]) IN MapFind(node_map, key)

\* ----------------------------------------------------- size of the model
RECURSIVE SumEdges(_, _)
SumEdges(g, S) ==
    IF S = {} THEN 0
    ELSE LET e == CHOOSE x \in S : TRUE
         IN MapSize(g[e].m_edge) + SumEdges(g, S \ {e})

Cells(g) == MapSize(g) + SumEdges(g, DOMAIN g)

\* the model bound: the Graph objects hold at most MaxCells entries together
Fits(maps) == Cells(maps[1]) + Cells(maps[2]) <= MaxCells

\* ------------------------------------------------- record of the last call
\* op: the member called; gi: the Graph object; k, k2, v, w: its arguments
\* (NoKey / 0 when unused); thrown: GraphException("Key not found") raised;
\* flag: the bool of the returned pair, or of loop(); num: the size_t
\* returned; it: the key of the entry the returned iterator or reference
\* designates (NoKey for end()).
Call(op, gi, k, k2, v, w, thrown, flag, num, it) ==
    [op |-> op, gi |-> gi, k |-> k, k2 |-> k2, v |-> v, w |-> w,
     thrown |-> thrown, flag |-> flag, num |-> num, it |-> it]

Init ==
    /\ m_umap = [i \in GraphIds |-> EmptyMap]
    /\ last = Call("Graph", 1, NoKey, NoKey, 0, 0, FALSE, FALSE, 0, NoKey)

\* ------------------------------------------------------------ operations
insert_node_overwrites(i, key, value) ==
    /\ m_umap' = [m_umap EXCEPT ![i] = MapInsertOrAssign(@, key, Node(value))]
    /\ Fits(m_umap')
    /\ last' = Call("insert_node", i, key, NoKey, value, 0, FALSE,
                    ~MapFind(m_umap[i], key), 0, key)

insert_node(i, key, value) ==
    /\ m_umap' = [m_umap EXCEPT ![i] = MapInsert(@, key, Node(value))]
    /\ Fits(m_umap')
    /\ last' = Call("insert_node", i, key, NoKey, value, 0, FALSE,
                    ~MapFind(m_umap[i], key), 0, key)

insert_or_assign_node_merges(i, key, value) ==
    /\ m_umap' = [m_umap EXCEPT ![i] =
                     IF MapFind(@, key)
                     THEN [@ EXCEPT ![key].m_value = value]
                     ELSE MapPut(@, key, Node(value))]
    /\ Fits(m_umap')
    /\ last' = Call("insert_or_assign_node", i, key, NoKey, value, 0, FALSE,
                    ~MapFind(m_umap[i], key), 0, key)

insert_or_assign_node(i, key, value) ==
    /\ m_umap' = [m_umap EXCEPT ![i] = MapInsertOrAssign(@, key, Node(value))]
    /\ Fits(m_umap')
    /\ last' = Call("insert_or_assign_node", i, key, NoKey, value, 0, FALSE,
                    ~MapFind(m_umap[i], key), 0, key)

\* operator[] : access-or-create
subscript(i, key) ==
    /\ m_umap' = [m_umap EXCEPT ![i] = MapInsert(@, key, NodeDefault)]
    /\ Fits(m_umap')
    /\ last' = Call("operator[]", i, key, NoKey, 0, 0, FALSE, FALSE, 0, key)

at(i, key) ==
    /\ UNCHANGED m_umap
    /\ last' = IF ~MapFind(m_umap[i], key)
               THEN Call("at", i, key, NoKey, 0, 0, TRUE, FALSE, 0, NoKey)
               ELSE Call("at", i, key, NoKey, 0, 0, FALSE, FALSE, 0, key)

find(i, key) ==
    /\ UNCHANGED m_umap
    /\ last' = Call("find", i, key, NoKey, 0, 0, FALSE, FALSE, 0,
                    IF MapFind(m_umap[i], key) THEN key ELSE NoKey)

degree_in_unchecked(i, key) ==
    /\ UNCHANGED m_umap
    /\ last' = Call("degree_in", i, key, NoKey, 0, 0, FALSE, FALSE,
                    DegreeInCount(m_umap[i], key), NoKey)

degree_in(i, key) ==
    /\ UNCHANGED m_umap
    /\ last' = IF ~MapFind(m_umap[i], key)
               THEN Call("degree_in", i, key, NoKey, 0, 0, TRUE, FALSE, 0, NoKey)
               ELSE Call("degree_in", i, key, NoKey, 0, 0, FALSE, FALSE,
                         DegreeInCount(m_umap[i], key), NoKey)

degree_out(i, key) ==
    /\ UNCHANGED m_umap
    /\ last' = IF ~MapFind(m_umap[i], key)
               THEN Call("degree_out", i, key, NoKey, 0, 0, TRUE, FALSE, 0, NoKey)
               ELSE Call("degree_out", i, key, NoKey, 0, 0, FALSE, FALSE,
                         DegreeOutCount(m_umap[i], key), NoKey)

loop(i, key) ==
    /\ UNCHANGED m_umap
    /\ last' = IF ~MapFind(m_umap[i], key)
               THEN Call("loop", i, key, NoKey, 0, 0, TRUE, FALSE, 0, NoKey)
               ELSE Call("loop", i, key, NoKey, 0, 0, FALSE,
                         LoopTest(m_umap[i], key), 0, NoKey)

InsertEdgeThrows_source_only(g, first, second) == ~MapFind(g, first)

\* the two existence tests of Graph::insert_edge
InsertEdgeThrows(g, first, second) == ~MapFind(g, first) \/ ~MapFind(g, second)

InsertOrAssignEdgeThrows_both(g, first, second) ==
    ~MapFind(g, first) \/ ~MapFind(g, second)

\* the existence test of Graph::insert_or_assign_edge
InsertOrAssignEdgeThrows(g, first, second) == ~MapFind(g, first)

insert_edge(i, first, second, weight) ==
    LET g == m_umap[i] IN
    IF InsertEdgeThrows(g, first, second)
    THEN /\ UNCHANGED m_umap
         /\ last' = Call("insert_edge", i, first, second, 0, weight,
                         TRUE, FALSE, 0, NoKey)
    ELSE /\ m_umap' = [m_umap EXCEPT ![i][first] =
                           Node_insert_edge(@, second, weight)]
         /\ Fits(m_umap')
         /\ last' = Call("insert_edge", i, first, second, 0, weight, FALSE,
                         ~MapFind(getedges(g[first]), second), 0, second)

insert_or_assign_edge(i, first, second, weight) ==
    LET g == m_umap[i] IN
    IF InsertOrAssignEdgeThrows(g, first, second)
    THEN /\ UNCHANGED m_umap
         /\ last' = Call("insert_or_assign_edge", i, first, second, 0, weight,
                         TRUE, FALSE, 0, NoKey)
    ELSE /\ m_umap' = [m_umap EXCEPT ![i][first] =
                           Node_insert_or_assign_edge(@, second, weight)]
         /\ Fits(m_umap')
         /\ last' = Call("insert_or_assign_edge", i, first, second, 0, weight,
                         FALSE, ~MapFind(getedges(g[first]), second), 0, second)

clear(i) ==
    /\ m_umap' = [m_umap EXCEPT ![i] = EmptyMap]
    /\ last' = Call("clear", i, NoKey, NoKey, 0, 0, FALSE, FALSE, 0, NoKey)

\* --------------------------------------------- copy, move, swap
\* For these calls gi is *this and k is the index of the argument object.

\* m_umap.swap(graph.m_umap)
SwapMaps(maps, i, j) == [maps EXCEPT ![i] = maps[j], ![j] = maps[i]]

\* the members of an object under construction: m_umap is default-initialised
Fresh(maps, i) == [maps EXCEPT ![i] = EmptyMap]

swap(i, j) ==
    /\ m_umap' = SwapMaps(m_umap, i, j)
    /\ last' = Call("swap", i, j, NoKey, 0, 0, FALSE, FALSE, 0, NoKey)

\* Graph(const Graph& graph) : object i is constructed from object j
copy_ctor(i, j) ==
    /\ i # j
    /\ m_umap' = [Fresh(m_umap, i) EXCEPT ![i] = m_umap[j]]
    /\ Fits(m_umap')
    /\ last' = Call("Graph(const Graph&)", i, j, NoKey, 0, 0,
                    FALSE, FALSE, 0, NoKey)

move_ctor_copies(i, j) ==
    /\ i # j
    /\ m_umap' = [Fresh(m_umap, i) EXCEPT ![i] = m_umap[j]]
    /\ Fits(m_umap')
    /\ last' = Call("Graph(Graph&&)", i, j, NoKey, 0, 0, FALSE, FALSE, 0, NoKey)

\* Graph(Graph&& graph) : object i is constructed, then swap(graph)
move_ctor(i, j) ==
    /\ i # j
    /\ m_umap' = SwapMaps(Fresh(m_umap, i), i, j)
    /\ last' = Call("Graph(Graph&&)", i, j, NoKey, 0, 0, FALSE, FALSE, 0, NoKey)

\* operator=(const Graph& graph)
copy_assign(i, j) ==
    /\ m_umap' = [m_umap EXCEPT ![i] = m_umap[j]]
    /\ Fits(m_umap')
    /\ last' = Call("operator=(const Graph&)", i, j, NoKey, 0, 0,
                    FALSE, FALSE, 0, NoKey)

move_assign_clears_source(i, j) ==
    /\ m_umap' = IF i = j THEN m_umap
                 ELSE [m_umap EXCEPT ![i] = m_umap[j], ![j] = EmptyMap]
    /\ last' = Call("operator=(Graph&&)", i, j, NoKey, 0, 0,
                    FALSE, FALSE, 0, NoKey)

\* operator=(Graph&& graph)
move_assign(i, j) ==
    /\ m_umap' = SwapMaps(m_umap, i, j)
    /\ last' = Call("operator=(Graph&&)", i, j, NoKey, 0, 0,
                    FALSE, FALSE, 0, NoKey)

\* namespace-level swap(Graph graph1, Graph graph2): both parameters are
\* passed by value, so two copies are swapped and then destroyed
free_swap(i, j) ==
    /\ m_umap' = m_umap
    /\ last' = Call("graph::swap", i, j, NoKey, 0, 0, FALSE, FALSE, 0, NoKey)

\* ------------------------------------------------------ specifications
Mutate(i, K) ==
    \/ \E k \in K, v \in Values : insert_node(i, k, v)
    \/ \E k \in K, v \in Values : insert_or_assign_node(i, k, v)
    \/ \E k \in K : subscript(i, k)
    \/ \E k1 \in K, k2 \in K, w \in Weights : insert_edge(i, k1, k2, w)
    \/ clear(i)

Assign(i, K) ==
    \E k1 \in K, k2 \in K, w \in Weights : insert_or_assign_edge(i, k1, k2, w)

Query(i, K) ==
    \/ \E k \in K : at(i, k)
    \/ \E k \in K : find(i, k)
    \/ \E k \in K : degree_in(i, k)
    \/ \E k \in K : degree_out(i, k)
    \/ \E k \in K : loop(i, k)

Transfer(i, j) ==
    \/ swap(i, j)
    \/ copy_ctor(i, j)
    \/ move_ctor(i, j)
    \/ copy_assign(i, j)
    \/ move_assign(i, j)
    \/ free_swap(i, j)

\* one Graph object, every member function, keys 1..NumKeys
Next == Mutate(1, Keys) \/ Assign(1, Keys) \/ Query(1, Keys)

Spec == Init /\ [][Next]_vars

\* two Graph objects, every mutating member plus copy/move/swap between them
NextPair ==
    \/ \E i \in GraphIds : Mutate(i, PairKeys) \/ Assign(i, PairKeys)
    \/ \E i \in GraphIds, j \in GraphIds : Transfer(i, j)

SpecPair == Init /\ [][NextPair]_vars

\* as SpecPair, but Graph::insert_or_assign_edge is never called
NextChecked ==
    \/ \E i \in GraphIds : Mutate(i, PairKeys)
    \/ \E i \in GraphIds, j \in GraphIds : Transfer(i, j)

SpecChecked == Init /\ [][NextChecked]_vars

\* ======================================================== properties
\* The step that ends in a state with last' = c is the call c: every
\* action writes its own record into last'.
Called(op) == last'.op = op

\* the graph the call was made on, before and after the call
Before == m_umap[last'.gi]
After == m_umap'[last'.gi]

\* every other Graph object is untouched by the call
OthersUntouched == \A o \in GraphIds \ {last'.gi} : m_umap'[o] = m_umap[o]

\* the edges of graph g as a set of <<source, target>> pairs
EdgeSet(g) == {e \in (DOMAIN g) \X Keys : e[2] \in DOMAIN g[e[1]].m_edge}

QueryOps == {"at", "degree_in", "degree_out", "loop"}

\* C1: at, degree_in, degree_out and loop on a key that is not a node key
\* raise KeyNotFound and leave every node map unchanged; degree_in raises
\* even when some node holds an edge to that key.
C1_QueryOnMissingKeyThrows ==
    [][(last'.op \in QueryOps /\ ~MapFind(Before, last'.k))
         => (last'.thrown /\ m_umap' = m_umap)]_vars

C1_Witness ==
    /\ last.op = "degree_in"
    /\ last.thrown
    /\ last.k \notin DOMAIN m_umap[last.gi]
    /\ \E n \in DOMAIN m_umap[last.gi] : last.k \in DOMAIN m_umap[last.gi][n].m_edge

\* C2: Graph::insert_edge raises KeyNotFound whenever the source or the
\* target is not a node key, and then the graph is unchanged.
C2_InsertEdgeChecksBothEndpoints ==
    [][(Called("insert_edge")
          /\ (~MapFind(Before, last'.k) \/ ~MapFind(Before, last'.k2)))
         => (last'.thrown /\ m_umap' = m_umap)]_vars

\* only the source exists, the target is a ghost: raised, no edge added
C2_Witness ==
    /\ last.op = "insert_edge"
    /\ last.thrown
    /\ DOMAIN m_umap[last.gi] = {last.k}
    /\ last.k2 # last.k
    /\ DOMAIN m_umap[last.gi][last.k].m_edge = {}

\* C3: Graph::insert_or_assign_edge raises KeyNotFound iff the source is
\* not a node key; with the source present and the target absent it
\* succeeds and stores source->target with the given weight.
C3_InsertOrAssignEdgeChecksSourceOnly ==
    [][Called("insert_or_assign_edge")
         => /\ last'.thrown <=> ~MapFind(Before, last'.k)
            /\ MapFind(Before, last'.k)
                 => /\ MapFind(After, last'.k)
                    /\ MapFind(After[last'.k].m_edge, last'.k2)
                    /\ After[last'.k].m_edge[last'.k2] = last'.w]_vars

\* a dangling edge target, just stored by insert_or_assign_edge
C3_Witness ==
    /\ last.op = "insert_or_assign_edge"
    /\ ~last.thrown
    /\ last.k \in DOMAIN m_umap[last.gi]
    /\ last.k2 \notin DOMAIN m_umap[last.gi]
    /\ last.k2 \in DOMAIN m_umap[last.gi][last.k].m_edge
    /\ m_umap[last.gi][last.k].m_edge[last.k2] = last.w

\* C4: insert_node(k, v) on an absent k returns true, grows size by one and
\* leaves at k a node with value v and no edges; on a present k it returns
\* false and the graph is unchanged.
C4_InsertNodeOnlyWhenAbsent ==
    [][Called("insert_node")
         => /\ ~last'.thrown
            /\ last'.it = last'.k
            /\ OthersUntouched
            /\ ~MapFind(Before, last'.k)
                 => /\ last'.flag
                    /\ size(After) = size(Before) + 1
                    /\ MapFind(After, last'.k)
                    /\ After[last'.k].m_value = last'.v
                    /\ DOMAIN After[last'.k].m_edge = {}
                    /\ \A o \in DOMAIN Before :
                          MapFind(After, o) /\ After[o] = Before[o]
            /\ MapFind(Before, last'.k)
                 => /\ ~last'.flag
                    /\ After = Before]_vars

\* a refused insert_node: the node keeps another value and its edges
C4_Witness ==
    /\ last.op = "insert_node"
    /\ ~last.flag
    /\ m_umap[last.gi][last.k].m_value # last.v
    /\ DOMAIN m_umap[last.gi][last.k].m_edge # {}

\* C5: insert_or_assign_node(k, v) replaces: afterwards the node at k has
\* value v and no edges, every other node is unchanged, size grows by one
\* iff k was absent, and the flag is true iff k was absent.
C5_InsertOrAssignNodeReplaces ==
    [][Called("insert_or_assign_node")
         => /\ ~last'.thrown
            /\ OthersUntouched
            /\ MapFind(After, last'.k)
            /\ After[last'.k].m_value = last'.v
            /\ DOMAIN After[last'.k].m_edge = {}
            /\ DOMAIN After = DOMAIN Before \cup {last'.k}
            /\ \A o \in DOMAIN Before \ {last'.k} : After[o] = Before[o]
            /\ size(After) = size(Before)
                               + (IF MapFind(Before, last'.k) THEN 0 ELSE 1)
            /\ last'.flag <=> ~MapFind(Before, last'.k)]_vars

\* a node was overwritten (flag false) while another node still targets it
C5_Witness ==
    /\ last.op = "insert_or_assign_node"
    /\ ~last.flag
    /\ DOMAIN m_umap[last.gi][last.k].m_edge = {}
    /\ \E o \in DOMAIN m_umap[last.gi] \ {last.k} :
          last.k \in DOMAIN m_umap[last.gi][o].m_edge

\* C6: for a node key k, degree_in(k) is the number of edges whose target
\* is k (a self-loop included), degree_out(k) the number of edges whose
\* source is k (dangling targets included), loop(k) whether k->k is an edge.
C6_DegreesMatchEdges ==
    LET g == m_umap[last.gi]
        k == last.k
    IN (last.op \in {"degree_in", "degree_out", "loop"} /\ MapFind(g, k))
         => /\ ~last.thrown
            /\ last.op = "degree_in"
                 => last.num = Cardinality({e \in EdgeSet(g) : e[2] = k})
            /\ last.op = "degree_out"
                 => last.num = Cardinality({e \in EdgeSet(g) : e[1] = k})
            /\ last.op = "loop"
                 => (last.flag <=> <<k, k>> \in EdgeSet(g))

\* degree_in counted a self-loop and an edge from another node
C6_Witness ==
    /\ last.op = "degree_in"
    /\ last.num = 2
    /\ <<last.k, last.k>> \in EdgeSet(m_umap[last.gi])

\* C7: on the non-failing paths the flag of insert_edge and of
\* insert_or_assign_edge is true iff source->target was no edge before;
\* insert_edge keeps the weight of an existing edge, insert_or_assign_edge
\* always leaves the new weight; nothing but that edge entry changes.
C7_EdgeInsertion ==
    [][(last'.op \in {"insert_edge", "insert_or_assign_edge"} /\ ~last'.thrown)
         => LET src == last'.k
                tgt == last'.k2
                old == Before[src].m_edge
                new == After[src].m_edge
            IN /\ MapFind(Before, src)
               /\ last'.flag <=> ~MapFind(old, tgt)
               /\ last'.it = tgt
               /\ OthersUntouched
               /\ DOMAIN After = DOMAIN Before
               /\ \A o \in DOMAIN Before \ {src} : After[o] = Before[o]
               /\ After[src].m_value = Before[src].m_value
               /\ DOMAIN new = DOMAIN old \cup {tgt}
               /\ \A t \in DOMAIN old \ {tgt} : new[t] = old[t]
               /\ new[tgt] = IF Called("insert_edge") /\ MapFind(old, tgt)
                             THEN old[tgt] ELSE last'.w]_vars

\* insert_edge was refused (flag false) and the edge kept another weight
C7_Witness ==
    /\ last.op = "insert_edge"
    /\ ~last.thrown
    /\ ~last.flag
    /\ m_umap[last.gi][last.k].m_edge[last.k2] # last.w

\* C8: after the move construction Graph g2 = std::move(g1), g1 is empty
\* and g2 holds exactly what g1 held.
C8_MoveConstruction ==
    [][Called("Graph(Graph&&)")
         => /\ m_umap'[last'.k] = EmptyMap
            /\ size(m_umap'[last'.k]) = 0
            /\ m_umap'[last'.gi] = m_umap[last'.k]]_vars

\* a graph with an edge has just been move-constructed
C8_Witness ==
    /\ last.op = "Graph(Graph&&)"
    /\ EdgeSet(m_umap[last.gi]) # {}
    /\ empty(m_umap[last.k])

\* C9: when Graph::insert_or_assign_edge is never called, every edge
\* target stored in a node is a node key of the same graph.
C9_NoDanglingEdges ==
    \A i \in GraphIds : \A e \in EdgeSet(m_umap[i]) : MapFind(m_umap[i], e[2])

\* insert_edge has just refused an edge to a missing target on one graph,
\* while the other graph holds an edge between two different nodes
C9_Witness ==
    /\ last.op = "insert_edge"
    /\ last.thrown
    /\ MapFind(m_umap[last.gi], last.k)
    /\ ~MapFind(m_umap[last.gi], last.k2)
    /\ \E o \in GraphIds \ {last.gi} : \E e \in EdgeSet(m_umap[o]) : e[1] # e[2]

\* C10: the move assignment g2 = std::move(g1) exchanges the two graphs:
\* g2 holds what g1 held and g1 holds what g2 held.
C10_MoveAssignmentSwaps ==
    [][Called("operator=(Graph&&)")
         => /\ m_umap'[last'.gi] = m_umap[last'.k]
            /\ m_umap'[last'.k] = m_umap[last'.gi]]_vars

\* after a move assignment the moved-from graph is not empty
C10_Witness ==
    /\ last.op = "operator=(Graph&&)"
    /\ last.gi # last.k
    /\ ~empty(m_umap[last.k])
    /\ ~empty(m_umap[last.gi])
    /\ m_umap[last.k] # m_umap[last.gi]

====
